---- MODULE Spec2Model ----
(***************************************************************************)
(* Model of src/main.py: PDFTextExtractor.                                 *)
(*                                                                         *)
(* Python strings are sequences of characters, None is a separate value.   *)
(* The three PDF libraries and the file system are the environment: what a *)
(* library yields for a file (an exception, or the text of each page) and  *)
(* whether makedirs / open / write succeed are inputs chosen with \E.      *)
(* stdout is kept in two parts: out holds the lines printed by the current *)
(* extract_text call, batch_out the lines printed by                       *)
(* extract_from_directory itself.                                          *)
(***************************************************************************)
EXTENDS Naturals, Sequences, FiniteSets

\* ---------------------------------------------------------------- bounds
MaxDocs == 2
MaxPages == 1

\* ---------------------------------------------------------------- values
SP == " "
NL == "\n"
Whitespace == {SP, NL}

NoneV == [k |-> "None", s |-> << >>]
Str(s) == [k |-> "str", s |-> s]
EmptyStr == Str(<< >>)

\* Python truthiness of an Optional[str]: None and "" are falsy.
Truthy(v) == v.k = "str" /\ v.s # << >>

RECURSIVE LStrip(_)
LStrip(s) == IF s # << >> /\ Head(s) \in Whitespace THEN LStrip(Tail(s)) ELSE s

RECURSIVE RStrip(_)
RStrip(s) ==
    IF s # << >> /\ s[Len(s)] \in Whitespace
    THEN RStrip(SubSeq(s, 1, Len(s) - 1))
    ELSE s

\* str.strip()
Strip(s) == RStrip(LStrip(s))

\* ---------------------------------------------------------------- environment
AllStems == <<"a", "b", "c", "d">>
Stems == {AllStems[j] : j \in 1..MaxDocs}
\* a file name is stem + suffix
Name(stem) == <<stem, "pdf">>
Stem(name) == name[1]
Names == {Name(st) : st \in Stems}
OutputFileFixedStem(name) == <<AllStems[1], "txt">>
\* Path(output_dir) / f"{pdf_file.stem}.txt"
OutputFile(name) == <<Stem(name), "txt">>

\* absent : not in the directory
\* missing: listed by glob, but os.path.exists is False (dangling link)
\* corrupt: exists, every library raises on it
\* ok     : exists, a library may yield page texts (or still raise)
Kinds == {"absent", "missing", "corrupt", "ok"}

PageTexts == {<< >>, <<SP>>, <<SP, "x">>}
PageLists == UNION {[1..n -> PageTexts] : n \in 0..MaxPages}
Raises == [raise |-> TRUE, pages |-> << >>]
Yields(pages) == [raise |-> FALSE, pages |-> pages]
LibraryOutcomes(kind) ==
    IF kind = "ok" THEN {Raises} \cup {Yields(p) : p \in PageLists} ELSE {Raises}

OutputDirs == {NoneV, Str(<<"o">>)}

\* ---------------------------------------------------------------- strategies
RECURSIVE ConcatAll(_)
ConcatAll(pages) ==
    IF pages = << >> THEN << >>
    ELSE Head(pages) \o <<NL>> \o ConcatAll(Tail(pages))

RECURSIVE ConcatTruthy(_)
ConcatTruthy(pages) ==
    IF pages = << >> THEN << >>
    ELSE (IF Head(pages) # << >> THEN Head(pages) \o <<NL>> ELSE << >>)
         \o ConcatTruthy(Tail(pages))

extract_with_pypdf2(lib) ==
    IF lib.raise THEN NoneV ELSE Str(Strip(ConcatAll(lib.pages)))

extract_with_pdfplumber(lib) ==
    IF lib.raise THEN NoneV ELSE Str(Strip(ConcatTruthy(lib.pages)))

extract_with_pymupdf(lib) ==
    IF lib.raise THEN NoneV ELSE Str(Strip(ConcatAll(lib.pages)))

supported_methods == <<"pypdf2", "pdfplumber", "pymupdf">>

methods_pymupdf_first == <<"pymupdf", "pdfplumber", "pypdf2">>
\* the auto-mode list of (method_name, method_func)
methods == <<"pdfplumber", "pymupdf", "pypdf2">>

Invoke(m, lib) ==
    CASE m = "pypdf2" -> extract_with_pypdf2(lib)
      [] m = "pdfplumber" -> extract_with_pdfplumber(lib)
      [] m = "pymupdf" -> extract_with_pymupdf(lib)

MethodArgs == {"auto", "pypdf2", "pdfplumber", "pymupdf", "ocr"}

\* ---------------------------------------------------------------- state
VARIABLES
    fs,          \* the directory: file name -> kind
    pc,          \* "idle", "auto", "batch_loop", "batch_after", "done"
    caller,      \* who called extract_text: "none", "main", "batch"
    path,        \* extract_text's pdf_path
    method,      \* extract_text's method
    i,           \* extract_text: position in methods (auto mode)
    calls,       \* strategies invoked by the current extract_text call, with results
    out,         \* lines printed by the current extract_text call
    ret,         \* outcome of the last extract_text call
    pdf_files,   \* extract_from_directory: the glob result
    k,           \* extract_from_directory: position in pdf_files
    results,     \* extract_from_directory: the result mapping
    output_dir,  \* extract_from_directory: the output_dir argument
    dir_made,    \* os.makedirs(output_dir) has succeeded
    outfiles,    \* files written under output_dir: output file -> content
    batch_out,   \* lines printed by extract_from_directory
    batch_ret    \* outcome of extract_from_directory

et_vars == <<path, method, i, calls, out, ret>>
batch_vars == <<pdf_files, k, results, output_dir, dir_made, outfiles, batch_out, batch_ret>>
vars == <<fs, pc, caller, et_vars, batch_vars>>

Pending == [kind |-> "pending", exc |-> "", val |-> NoneV]
Return(v) == [kind |-> "return", exc |-> "", val |-> v]
Raise(e) == [kind |-> "raise", exc |-> e, val |-> NoneV]

EmptyMap == [n \in {} |-> EmptyStr]
Put(f, key, v) == [x \in DOMAIN f \cup {key} |-> IF x = key THEN v ELSE f[x]]

Init ==
    /\ fs \in [Names -> Kinds]
    /\ pc = "idle"
    /\ caller = "none"
    /\ path = Name(AllStems[1])
    /\ method = "auto"
    /\ i = 1
    /\ calls = << >>
    /\ out = << >>
    /\ ret = Pending
    /\ pdf_files = << >>
    /\ k = 1
    /\ results = EmptyMap
    /\ output_dir = NoneV
    /\ dir_made = FALSE
    /\ outfiles = EmptyMap
    /\ batch_out = << >>
    /\ batch_ret = "pending"

\* ---------------------------------------------------------------- extract_text
\* print(f"Trying {method_name}...")
TryingLine(m) == [msg |-> "Trying", m |-> m]
\* print(f"Error with <library>: {e}") in a strategy's except branch
ErrorLine(m) == [msg |-> "Error with", m |-> m]
\* print("All methods failed to extract text")
AllFailedLine == [msg |-> "All methods failed to extract text", m |-> ""]

SuccessLineFirst(m) == [msg |-> "Successfully extracted text using", m |-> methods[1]]
\* print(f"Successfully extracted text using {method_name}")
SuccessLine(m) == [msg |-> "Successfully extracted text using", m |-> m]

UnsupportedFallsThrough == [kind |-> "return", exc |-> "", val |-> NoneV]
\* raise ValueError(f"Unsupported method: {method}")
UnsupportedMethod == Raise("ValueError")

\* where control goes when extract_text returns or raises
AfterCall(c) == IF c = "batch" THEN "batch_after" ELSE "done"

ExistsAlways(p) == TRUE
\* os.path.exists(pdf_path)
Exists(p) == fs[p] \in {"corrupt", "ok"}

\* Entry of extract_text(p, m) called by c: the existence check, then the
\* dispatch on method. An explicit method runs its strategy and returns.
EnterExtractText(c, p, m) ==
    /\ caller' = c
    /\ path' = p
    /\ method' = m
    /\ i' = 1
    /\ IF ~Exists(p)
       THEN /\ ret' = Raise("FileNotFoundError")
            /\ calls' = << >>
            /\ out' = << >>
            /\ pc' = AfterCall(c)
       ELSE IF m = "auto"
       THEN /\ ret' = Pending
            /\ calls' = << >>
            /\ out' = << >>
            /\ pc' = "auto"
       ELSE IF m \in {"pypdf2", "pdfplumber", "pymupdf"}
       THEN \E lib \in LibraryOutcomes(fs[p]) :
              /\ ret' = Return(Invoke(m, lib))
              /\ calls' = <<[m |-> m, r |-> Invoke(m, lib)]>>
              /\ out' = IF lib.raise THEN <<ErrorLine(m)>> ELSE << >>
              /\ pc' = AfterCall(c)
       ELSE /\ ret' = UnsupportedMethod
            /\ calls' = << >>
            /\ out' = << >>
            /\ pc' = AfterCall(c)

\* if text and text.strip():
Accepts(text) == Truthy(text) /\ Strip(text.s) # << >>

\* One iteration of the loop over methods.
AutoStep ==
    /\ pc = "auto"
    /\ i <= Len(methods)
    /\ \E lib \in LibraryOutcomes(fs[path]) :
         LET m == methods[i]
             text == Invoke(m, lib)
             printed == out \o <<TryingLine(m)>>
                            \o (IF lib.raise THEN <<ErrorLine(m)>> ELSE << >>)
         IN /\ calls' = Append(calls, [m |-> m, r |-> text])
            /\ IF Accepts(text)
               THEN /\ out' = Append(printed, SuccessLine(m))
                    /\ ret' = Return(text)
                    /\ pc' = AfterCall(caller)
                    /\ i' = i
               ELSE /\ out' = printed
                    /\ ret' = ret
                    /\ pc' = pc
                    /\ i' = i + 1
    /\ UNCHANGED <<fs, caller, path, method, batch_vars>>

\* The loop ended without a return.
AutoExhausted ==
    /\ pc = "auto"
    /\ i > Len(methods)
    /\ out' = Append(out, AllFailedLine)
    /\ ret' = Return(EmptyStr)
    /\ pc' = AfterCall(caller)
    /\ UNCHANGED <<fs, caller, path, method, i, calls, batch_vars>>

\* A direct call of extract_text (as main does).
CallExtractText ==
    /\ pc = "idle"
    /\ \E p \in Names, m \in MethodArgs : EnterExtractText("main", p, m)
    /\ UNCHANGED <<fs, batch_vars>>

\* ---------------------------------------------------------------- extract_from_directory
Perms(S) == {q \in [1..Cardinality(S) -> S] : \A a, b \in DOMAIN q : q[a] = q[b] => a = b}

\* list(Path(directory_path).glob("*.pdf")), in the order the OS lists them
Glob == Perms({n \in Names : fs[n] # "absent"})

CallExtractFromDirectory ==
    /\ pc = "idle"
    /\ \E od \in OutputDirs, files \in Glob, mk \in {"ok", "raise"} :
         /\ pdf_files' = files
         /\ results' = EmptyMap
         /\ output_dir' = od
         /\ k' = 1
         /\ IF Truthy(od) /\ mk = "raise"
            THEN /\ batch_ret' = "raise"
                 /\ dir_made' = FALSE
                 /\ pc' = "done"
            ELSE /\ batch_ret' = "pending"
                 /\ dir_made' = Truthy(od)
                 /\ pc' = "batch_loop"
    /\ UNCHANGED <<fs, caller, et_vars, outfiles, batch_out>>

\* for pdf_file in pdf_files: ... text = self.extract_text(str(pdf_file))
BatchNextDoc ==
    /\ pc = "batch_loop"
    /\ k <= Len(pdf_files)
    /\ batch_out' = Append(batch_out, [msg |-> "Processing", arg |-> pdf_files[k]])
    /\ EnterExtractText("batch", pdf_files[k], "auto")
    /\ UNCHANGED <<fs, pdf_files, k, results, output_dir, dir_made, outfiles, batch_ret>>

Prefixes(s) == {SubSeq(s, 1, n) : n \in 0..(Len(s) - 1)}

FailedLine(name) == [msg |-> "Failed to process", arg |-> name]

FailedWithoutEntry(name) ==
    /\ batch_out' = Append(batch_out, FailedLine(name))
    /\ results' = results
FailedKeepsText(name) ==
    /\ batch_out' = Append(batch_out, FailedLine(name))
    /\ results' = Put(results, name, ret.val)
\* The except branch.
Failed(name) ==
    /\ batch_out' = Append(batch_out, FailedLine(name))
    /\ results' = Put(results, name, EmptyStr)

\* The rest of the try block once extract_text has returned or raised, and
\* the except branch.
BatchAfterExtract ==
    /\ pc = "batch_after"
    /\ LET name == pdf_files[k]
           output_file == OutputFile(name)
       IN IF ret.kind = "raise"
          THEN Failed(name) /\ outfiles' = outfiles
          ELSE IF ~Truthy(output_dir)
          THEN /\ results' = Put(results, name, ret.val)
               /\ UNCHANGED <<outfiles, batch_out>>
          ELSE \/ /\ results' = Put(results, name, ret.val)
                  /\ outfiles' = Put(outfiles, output_file, ret.val)
                  /\ batch_out' = Append(batch_out, [msg |-> "Saved to", arg |-> output_file])
               \/ \* open() raises
                  Failed(name) /\ outfiles' = outfiles
               \/ \* write or close raises: the file holds part of the text
                  \E part \in Prefixes(ret.val.s) :
                     Failed(name) /\ outfiles' = Put(outfiles, output_file, Str(part))
    /\ k' = k + 1
    /\ pc' = "batch_loop"
    /\ calls' = << >>
    /\ UNCHANGED <<fs, caller, path, method, i, out, ret, pdf_files, output_dir, dir_made, batch_ret>>

\* return results
BatchReturn ==
    /\ pc = "batch_loop"
    /\ k > Len(pdf_files)
    /\ batch_ret' = "return"
    /\ pc' = "done"
    /\ UNCHANGED <<fs, caller, et_vars, pdf_files, k, results, output_dir, dir_made, outfiles, batch_out>>

Next ==
    \/ CallExtractText
    \/ AutoStep
    \/ AutoExhausted
    \/ CallExtractFromDirectory
    \/ BatchNextDoc
    \/ BatchAfterExtract
    \/ BatchReturn

Spec == Init /\ [][Next]_vars

\* ---------------------------------------------------------------- properties
Range(q) == {q[j] : j \in DOMAIN q}
Blank(v) == v.k = "None" \/ Strip(v.s) = << >>
IsPrefix(a, b) == Len(a) <= Len(b) /\ SubSeq(b, 1, Len(a)) = a
SuccessLines == {l \in Range(out) : l.msg = "Successfully extracted text using"}

\* an auto-mode extract_text call on an existing file is running or has returned
InAuto == method = "auto" /\ pc = "auto"
AutoReturned == method = "auto" /\ ret.kind = "return" /\ pc = AfterCall(caller) /\ caller # "none"
BatchReturned == batch_ret = "return"
FailurePath(n) == [msg |-> "Failed to process", arg |-> n] \in Range(batch_out)

\* C1: in auto mode on an existing file the strategies are invoked in the
\* order pdfplumber, pymupdf, pypdf2, each at most once; every strategy
\* invoked before the last one gave None or blank text (so none is invoked
\* after the first non-empty result); the value returned is the first
\* non-empty result, or "" when all three gave None or blank text.
C1_AutoFirstNonEmpty ==
    (InAuto \/ AutoReturned) =>
        /\ IsPrefix([j \in DOMAIN calls |-> calls[j].m], <<"pdfplumber", "pymupdf", "pypdf2">>)
        /\ \A j \in 1..(Len(calls) - 1) : Blank(calls[j].r)
        /\ AutoReturned =>
             /\ Len(calls) >= 1
             /\ IF Blank(calls[Len(calls)].r)
                THEN Len(calls) = 3 /\ ret.val = EmptyStr
                ELSE ret.val = calls[Len(calls)].r

\* C1 witness: the third strategy's text is returned after two blank results.
C1_Witness ==
    /\ AutoReturned
    /\ Len(calls) = 3
    /\ ~Blank(calls[3].r)
    /\ ret.val = calls[3].r

\* C2: when auto mode returns non-empty text, exactly one strategy is
\* reported as successful on stdout and it is the strategy whose text is
\* returned; when every strategy fails none is reported as successful.
C2_ReportsSucceedingStrategy ==
    AutoReturned =>
        IF Truthy(ret.val)
        THEN /\ SuccessLines = {[msg |-> "Successfully extracted text using", m |-> calls[Len(calls)].m]}
             /\ calls[Len(calls)].r = ret.val
        ELSE SuccessLines = {}

\* C2 witness: a strategy other than the first succeeded and is the one reported.
C2_Witness ==
    /\ AutoReturned
    /\ Truthy(ret.val)
    /\ Len(calls) >= 2
    /\ \E l \in SuccessLines : l.m = calls[Len(calls)].m /\ l.m # "pdfplumber"

\* C3: when extract_from_directory returns, the result mapping has an entry
\* for exactly the *.pdf files found in the directory, whichever of them
\* failed.
C3_EntryForEveryPdf ==
    BatchReturned =>
        /\ DOMAIN results = Range(pdf_files)
        /\ DOMAIN results = {n \in Names : fs[n] # "absent"}

\* C3 witness: a document failed and a later one was still processed.
C3_Witness ==
    /\ BatchReturned
    /\ Len(pdf_files) >= 2
    /\ FailurePath(pdf_files[1])
    /\ ~FailurePath(pdf_files[2])
    /\ Truthy(results[pdf_files[2]])

\* a document whose processing failed: unreadable, or recorded by the except branch
FailedDoc(n) == fs[n] \in {"missing", "corrupt"} \/ FailurePath(n)

C5_BatchNeverRaises == batch_ret # "raise"

\* the single extract_text call made by main has ended
SingleDone == caller = "main" /\ pc = "done"
Supported == {"auto", "pypdf2", "pdfplumber", "pymupdf"}

C7_EntryIsExtractedText ==
    (BatchReturned /\ Len(pdf_files) >= 1 /\ ret.kind = "return") =>
        results[pdf_files[Len(pdf_files)]] = ret.val

C9_ReturnsString == ret.kind = "return" => ret.val.k = "str"

\* C10: with a method outside auto, pypdf2, pdfplumber, pymupdf on an
\* existing file extract_text raises ValueError and invokes no strategy; on
\* a nonexistent path it raises FileNotFoundError for every method and
\* invokes no strategy.
C10_UnsupportedMethod ==
    SingleDone =>
        /\ (fs[path] \in {"corrupt", "ok"} /\ method \notin Supported) =>
             (ret = Raise("ValueError") /\ calls = << >>)
        /\ fs[path] \in {"absent", "missing"} =>
             (ret = Raise("FileNotFoundError") /\ calls = << >>)

\* C10 witness: an unsupported method on an existing file raised ValueError.
C10_Witness ==
    /\ SingleDone
    /\ fs[path] = "ok"
    /\ method = "ocr"
    /\ ret = Raise("ValueError")
    /\ calls = << >>

====
